---- MODULE Spec2Model ----
(***************************************************************************)
(* Model of examples/01_Exact_GPs/GP_Regression_Fully_Bayesian.ipynb: the  *)
(* fully Bayesian GP regression script.  The script is a linear sequence   *)
(* of cells; pc names the next statement to execute.  Real-valued          *)
(* quantities are kept as integers in units of 1/100 (0.05 is 5, 2.5 is    *)
(* 250).  Library calls (gpytorch.Module, pyro MCMC) are modelled by what  *)
(* the notebook's text and the specification say they do.                  *)
(***************************************************************************)
EXTENDS Integers, Sequences, FiniteSets, TLC

VARIABLES
    pc,              \* next statement of the script
    CI,              \* 'CI' in os.environ
    seed,            \* state of the random number generator at start
    relax_call,      \* whether the load_strict_shapes(False) statement is present
    smoke_test,      \* python variable smoke_test
    num_samples,     \* python variable num_samples (0: not yet bound)
    warmup_steps,    \* python variable warmup_steps (0: not yet bound)
    train_n,         \* number of points of train_x / train_y (0: not yet bound)
    test_n,          \* number of points of test_x (0: not yet bound)
    heap,            \* object -> hyperparameter -> storage
    priors,          \* set of registered priors
    model,           \* object the python variable model is bound to
    mode,            \* object -> "train" | "eval"
    strict,          \* object -> strict shape checking on load
    mcmc,            \* the MCMC object mcmc_run
    expanded_lead,   \* leading dimension of expanded_test_x (0: not yet bound)
    output,          \* result of model(expanded_test_x)
    plotted,         \* batch indices whose mean was drawn, in order
    state_dict,      \* python variable state_dict
    last_call,       \* the prior of the register_prior call made last
    trained_on,      \* object -> size of the training data it was built with
    fault            \* unhandled exception that stopped the script

vars == <<pc, CI, seed, relax_call, last_call, trained_on, smoke_test,
          num_samples, warmup_steps, train_n, test_n, heap, priors, model, mode, strict, mcmc,
          expanded_lead, output, plotted, state_dict, fault>>

\* ----------------------------------------------------------------- bounds

\* Besides the script's own priors, register_prior is tried on the intervals
\* [lo, lo + 1] within -MaxEnd..MaxEnd.
MaxEnd == 2

\* Random streams 0..MaxSeed are explored.
MaxSeed == 2

\* Real values are enumerated over -ValueBound..ValueBound (units of 1/100).
ValueBound == 300

Values == (0 - ValueBound)..ValueBound

\* ------------------------------------------------------- the model's parts

\* The hyperparameters of ExactGPModel: ConstantMean, ScaleKernel(PeriodicKernel)
\* and the GaussianLikelihood passed to it.
ModelHypers == {"constant", "lengthscale", "period_length", "outputscale"}

LikelihoodHypers == {"noise"}

Hypers == ModelHypers \cup LikelihoodHypers

\* Constraint of each hyperparameter: noise is given Positive() explicitly,
\* the kernel hyperparameters are positive, the mean constant is unconstrained.
Constraint(h) == IF h = "constant" THEN "real" ELSE "positive"

\* The constrained parameter's domain, over the enumerated values.
Domain(h) == IF Constraint(h) = "positive" THEN {v \in Values : v > 0} ELSE Values

\* Raw (unconstrained) representation of constrained value v of h: the inverse
\* transform of v, which is defined only on the domain of h.
InvTransform(h, v) == [def |-> v \in Domain(h), arg |-> v]

\* Constrained value of a raw representation (transform after inverse
\* transform is the value itself where the inverse is defined).
Transform(r) == r.arg

\* Storage of a freshly constructed (single-instance) hyperparameter: raw 0,
\* that is constant 0 and softplus(0) = 0.69 for the positive ones.
FreshStorage(h) ==
    [batched |-> FALSE,
     vals |-> << InvTransform(h, IF h = "constant" THEN 0 ELSE 69) >>]

FreshModule(hs) == [h \in hs |-> FreshStorage(h)]

\* ------------------------------------------------------------ configuration

\* NumSamples with the condition inverted.
NumSamplesInverted(smoke) == IF smoke THEN 100 ELSE 2

\* num_samples = 2 if smoke_test else 100
NumSamples(smoke) == IF smoke THEN 2 ELSE 100

\* WarmupSteps with the long run's count mistyped.
WarmupStepsTypo(smoke) == IF smoke THEN 2 ELSE 100

\* warmup_steps = 2 if smoke_test else 200
WarmupSteps(smoke) == IF smoke THEN 2 ELSE 200

\* module.register_prior(name, UniformPrior(lo, hi), param)
PriorCall(name, lo, hi, obj, param) ==
    [name |-> name, dist |-> "Uniform", lo |-> lo, hi |-> hi, obj |-> obj,
     param |-> param]

\* PriorCalls with the parameters of the two base-kernel priors exchanged.
PriorCallsSwapped ==
    << PriorCall("mean_prior", 0 - 100, 100, "model1", "constant"),
       PriorCall("lengthscale_prior", 1, 50, "model1", "period_length"),
       PriorCall("period_length_prior", 5, 250, "model1", "lengthscale"),
       PriorCall("outputscale_prior", 100, 200, "model1", "outputscale"),
       PriorCall("noise_prior", 5, 30, "likelihood", "noise") >>

\* PriorCalls with the outputscale prior attached to the lengthscale.
PriorCallsDuplicate ==
    << PriorCall("mean_prior", 0 - 100, 100, "model1", "constant"),
       PriorCall("lengthscale_prior", 1, 50, "model1", "lengthscale"),
       PriorCall("period_length_prior", 5, 250, "model1", "period_length"),
       PriorCall("outputscale_prior", 100, 200, "model1", "lengthscale"),
       PriorCall("noise_prior", 5, 30, "likelihood", "noise") >>

\* PriorCalls with the lengthscale prior's lower end negated.
PriorCallsNegative ==
    << PriorCall("mean_prior", 0 - 100, 100, "model1", "constant"),
       PriorCall("lengthscale_prior", 0 - 1, 50, "model1", "lengthscale"),
       PriorCall("period_length_prior", 5, 250, "model1", "period_length"),
       PriorCall("outputscale_prior", 100, 200, "model1", "outputscale"),
       PriorCall("noise_prior", 5, 30, "likelihood", "noise") >>

\* PriorCalls with the noise prior starting at 0.
PriorCallsZeroNoise ==
    << PriorCall("mean_prior", 0 - 100, 100, "model1", "constant"),
       PriorCall("lengthscale_prior", 1, 50, "model1", "lengthscale"),
       PriorCall("period_length_prior", 5, 250, "model1", "period_length"),
       PriorCall("outputscale_prior", 100, 200, "model1", "outputscale"),
       PriorCall("noise_prior", 0, 30, "likelihood", "noise") >>

\* The five register_prior statements, in order: UniformPrior(-1, 1) on the
\* mean constant, (0.01, 0.5) on the lengthscale, (0.05, 2.5) on the period
\* length, (1, 2) on the outputscale, (0.05, 0.3) on the noise.
PriorCalls ==
    << PriorCall("mean_prior", 0 - 100, 100, "model1", "constant"),
       PriorCall("lengthscale_prior", 1, 50, "model1", "lengthscale"),
       PriorCall("period_length_prior", 5, 250, "model1", "period_length"),
       PriorCall("outputscale_prior", 100, 200, "model1", "outputscale"),
       PriorCall("noise_prior", 5, 30, "likelihood", "noise") >>

\* Support of a prior, over the enumerated values.
Support(p) == {v \in Values : p.lo <= v /\ v <= p.hi}

\* The objects whose hyperparameters a model object uses: itself and the
\* likelihood it was constructed with.
ModulesOf(m) == {m, "likelihood"}

\* Priors registered on the modules of model object m.
PriorsOf(m) == {p \in priors : p.obj \in ModulesOf(m)}

\* Storage of hyperparameter h of model object m.
StorageOf(m, h) == IF h \in LikelihoodHypers THEN heap["likelihood"][h] ELSE heap[m][h]

\* ------------------------------------------------------------------- Init

NoMcmc == [built |-> FALSE, num_samples |-> 0, warmup_steps |-> 0,
           disable_progbar |-> FALSE, warm_done |-> 0, samp_done |-> 0,
           samples |-> << >>, returned |-> FALSE]

\* No register_prior call made yet.
NoCall == [name |-> "none", dist |-> "none", lo |-> 0, hi |-> 0, obj |-> "none",
           param |-> "none"]

NoOutput == [lead |-> 0, points |-> 0, mean |-> << >>]

ModelObjects == {"model1", "model2"}

Objects == ModelObjects \cup {"likelihood"}

Init ==
    /\ pc = "data"
    /\ CI \in BOOLEAN
    /\ seed \in 0..MaxSeed
    /\ relax_call \in BOOLEAN
    /\ smoke_test = FALSE
    /\ num_samples = 0
    /\ warmup_steps = 0
    /\ train_n = 0
    /\ test_n = 0
    /\ heap = [o \in Objects |-> << >>]
    /\ priors = {}
    /\ model = "none"
    /\ mode = [o \in ModelObjects |-> "none"]
    /\ strict = [o \in ModelObjects |-> TRUE]
    /\ mcmc = NoMcmc
    /\ expanded_lead = 0
    /\ output = NoOutput
    /\ plotted = << >>
    /\ state_dict = << >>
    /\ last_call = NoCall
    /\ trained_on = [o \in ModelObjects |-> 0]
    /\ fault = "none"

Running == fault = "none"

\* ------------------------------------------------------ library operations

\* Leading (sample) dimension of a storage; 0 when it has none.
LeadingDim(st) == IF st.batched THEN Len(st.vals) ELSE 0

\* The value iteration k of the chain yields for prior p: a point of the
\* prior's support, determined by the random stream.
Draw(p, k) == p.lo + ((seed * 7 + k * ((p.hi - p.lo) \div 7 + 1)) % (p.hi - p.lo + 1))

\* One sampling iteration: a draw is appended under every sample site, one
\* site per registered prior of the model.
AppendDraws(samples, prs, k) ==
    [n \in {p.name : p \in prs} |->
        LET p == CHOOSE q \in prs : q.name = n
            old == IF n \in DOMAIN samples THEN samples[n] ELSE << >>
        IN  Append(old, Draw(p, k))]

\* pyro_load_from_samples: every hyperparameter with a registered prior is
\* replaced by the sequence of its samples, in the order drawn, through the
\* inverse transform; the others are left alone.
LoadSamples(hp, prs, samples) ==
    [o \in DOMAIN hp |->
        [h \in DOMAIN hp[o] |->
            IF \E p \in prs : p.obj = o /\ p.param = h /\ p.name \in DOMAIN samples
            THEN LET p == CHOOSE q \in prs : q.obj = o /\ q.param = h
                                              /\ q.name \in DOMAIN samples
                     xs == samples[p.name]
                 IN  [batched |-> TRUE,
                      vals |-> [i \in 1..Len(xs) |-> InvTransform(h, xs[i])]]
            ELSE hp[o][h]]]

\* The constrained hyperparameter values GP number i of the batch uses (a
\* hyperparameter without sample dimension is shared by all).
HyperSlice(m, i) ==
    [h \in Hypers |->
        LET st == StorageOf(m, h)
        IN  Transform(IF st.batched THEN st.vals[i] ELSE st.vals[1])]

\* The batch shape of the hyperparameters of m is compatible with an input of
\* leading dimension n.
BatchCompatible(m, n) ==
    \A h \in Hypers : LeadingDim(StorageOf(m, h)) \in {0, n}

\* state_dict(): a snapshot of every hyperparameter of the model.
StateDictOf(m) == [h \in Hypers |-> StorageOf(m, h)]

\* Two storages have the same shape.
SameShape(a, b) == a.batched = b.batched /\ Len(a.vals) = Len(b.vals)

\* Keys of a state dict a strict-shape load rejects for model m.
ShapeMismatches(m, sd) == {h \in DOMAIN sd : ~SameShape(StorageOf(m, h), sd[h])}

\* Keys of sd that load_state_dict copies into m.
Copied(m, sd, strictShapes) ==
    IF strictShapes THEN DOMAIN sd \ ShapeMismatches(m, sd) ELSE DOMAIN sd

\* load_state_dict: heap after loading sd into model m.
LoadStateDict(hp, m, sd, strictShapes) ==
    [o \in DOMAIN hp |->
        [h \in DOMAIN hp[o] |->
            IF o \in ModulesOf(m) /\ h \in Copied(m, sd, strictShapes)
            THEN sd[h] ELSE hp[o][h]]]

\* ---------------------------------------------------------------- actions

\* train_x = torch.linspace(0, 1, 6); train_y = sin(...) + noise
GenerateData ==
    /\ Running /\ pc = "data"
    /\ train_n' = 6
    /\ pc' = "config"
    /\ UNCHANGED <<CI, seed, relax_call, last_call, trained_on,
                   smoke_test, num_samples, warmup_steps,
                   test_n, heap, priors, model, mode, strict, mcmc,
                   expanded_lead, output, plotted, state_dict, fault>>

\* smoke_test = ('CI' in os.environ); num_samples = ...; warmup_steps = ...
Configure ==
    /\ Running /\ pc = "config"
    /\ smoke_test' = CI
    /\ num_samples' = NumSamples(CI)
    /\ warmup_steps' = WarmupSteps(CI)
    /\ pc' = "likelihood"
    /\ UNCHANGED <<CI, seed, relax_call, last_call, trained_on,
                   train_n, test_n, heap, priors, model,
                   mode, strict, mcmc, expanded_lead, output, plotted,
                   state_dict, fault>>

\* likelihood = GaussianLikelihood(noise_constraint=Positive())
MakeLikelihood ==
    /\ Running /\ pc = "likelihood"
    /\ heap' = [heap EXCEPT !["likelihood"] = FreshModule(LikelihoodHypers)]
    /\ pc' = "construct"
    /\ UNCHANGED <<CI, seed, relax_call, last_call, trained_on,
                   smoke_test, num_samples, warmup_steps,
                   train_n, test_n, priors, model, mode, strict, mcmc,
                   expanded_lead, output, plotted, state_dict, fault>>

\* ExactGPModel.__init__: a new model object with fresh mean and kernel
\* modules, using the likelihood object it is given.
NewModel(o) ==
    /\ heap' = [heap EXCEPT ![o] = FreshModule(ModelHypers)]
    /\ mode' = [mode EXCEPT ![o] = "train"]
    /\ strict' = [strict EXCEPT ![o] = TRUE]
    /\ trained_on' = [trained_on EXCEPT ![o] = train_n]
    /\ model' = o

\* model = ExactGPModel(train_x, train_y, likelihood)
ConstructModel ==
    /\ Running /\ pc = "construct"
    /\ NewModel("model1")
    /\ pc' = "prior"
    /\ UNCHANGED <<CI, seed, relax_call, last_call, smoke_test, num_samples, warmup_steps,
                   train_n, test_n, priors, mcmc, expanded_lead, output,
                   plotted, state_dict, fault>>

\* Compatible without the check of the support.
CompatibleUnchecked(p) == TRUE

\* The support of prior p is compatible with the constraint of the
\* hyperparameter it is attached to: it lies within the constrained domain.
Compatible(p) == Support(p) \subseteq Domain(p.param)

\* module.register_prior(name, prior, param): the prior is attached, or the
\* call fails on a support incompatible with the parameter's constraint and
\* attaches nothing.
TryRegister(p) ==
    /\ last_call' = p
    /\ IF Compatible(p)
       THEN priors' = priors \cup {p} /\ UNCHANGED fault
       ELSE fault' = "prior_support" /\ UNCHANGED priors

\* The next register_prior statement: the priors registered so far count the
\* statements executed.
RegisterPrior ==
    /\ Running /\ pc = "prior"
    /\ Cardinality(priors) < Len(PriorCalls)
    /\ TryRegister(PriorCalls[Cardinality(priors) + 1])
    /\ pc' = IF Cardinality(priors') = Len(PriorCalls) THEN "mcmc" ELSE "prior"
    /\ UNCHANGED <<CI, seed, relax_call, trained_on, smoke_test, num_samples,
                   warmup_steps, train_n, test_n, heap, model, mode, strict,
                   mcmc, expanded_lead, output, plotted, state_dict>>

\* McmcArgs with the two counts exchanged.
McmcArgsSwapped == [num_samples |-> warmup_steps, warmup_steps |-> num_samples,
                    disable_progbar |-> smoke_test]

\* McmcArgs without warmup_steps: the warmup then takes num_samples steps.
McmcArgsDefaultWarmup == [num_samples |-> num_samples, warmup_steps |-> num_samples,
                          disable_progbar |-> smoke_test]

\* The keyword arguments of MCMC(nuts_kernel, num_samples=num_samples,
\* warmup_steps=warmup_steps, disable_progbar=smoke_test).
McmcArgs == [num_samples |-> num_samples, warmup_steps |-> warmup_steps,
             disable_progbar |-> smoke_test]

\* nuts_kernel = NUTS(pyro_model, adapt_step_size=True); mcmc_run = MCMC(...)
MakeMcmc ==
    /\ Running /\ pc = "mcmc"
    /\ mcmc' = [built |-> TRUE, num_samples |-> McmcArgs.num_samples,
                warmup_steps |-> McmcArgs.warmup_steps,
                disable_progbar |-> McmcArgs.disable_progbar,
                warm_done |-> 0, samp_done |-> 0, samples |-> << >>,
                returned |-> FALSE]
    /\ pc' = "run"
    /\ UNCHANGED <<CI, seed, relax_call, last_call, trained_on,
                   smoke_test, num_samples, warmup_steps,
                   train_n, test_n, heap, priors, model, mode, strict,
                   expanded_lead, output, plotted, state_dict, fault>>

RunFrame == UNCHANGED <<CI, seed, relax_call, last_call, trained_on,
                        smoke_test, num_samples, warmup_steps, train_n,
                        test_n, priors, model, mode, strict, expanded_lead,
                        output, plotted, state_dict>>

\* pyro_model(x, y), called by the sampler in iteration k:
\* model.pyro_sample_from_prior() writes the value drawn at every sample site
\* into the parameter its prior is registered on, in place and without a
\* sample dimension; model(x) and mll.pyro_factor then read them.
PyroModel(hp, prs, k) ==
    [o \in DOMAIN hp |->
        [h \in DOMAIN hp[o] |->
            IF \E p \in prs : p.obj = o /\ p.param = h
            THEN LET p == CHOOSE q \in prs : q.obj = o /\ q.param = h
                 IN  [batched |-> FALSE,
                      vals |-> << InvTransform(h, Draw(p, k)) >>]
            ELSE hp[o][h]]]

\* mcmc_run.run: one warmup iteration (its draw is discarded).
McmcWarmup ==
    /\ Running /\ pc = "run"
    /\ mcmc.warm_done < mcmc.warmup_steps
    /\ mcmc' = [mcmc EXCEPT !.warm_done = @ + 1]
    /\ heap' = PyroModel(heap, PriorsOf(model), mcmc.warm_done + mcmc.samp_done)
    /\ UNCHANGED <<pc, fault>>
    /\ RunFrame

\* mcmc_run.run: one sampling iteration, after the warmup.
McmcSample ==
    /\ Running /\ pc = "run"
    /\ mcmc.warm_done = mcmc.warmup_steps
    /\ mcmc.samp_done < mcmc.num_samples
    /\ mcmc' = [mcmc EXCEPT
                  !.samp_done = @ + 1,
                  !.samples = AppendDraws(@, PriorsOf(model),
                                          mcmc.warm_done + mcmc.samp_done)]
    /\ heap' = PyroModel(heap, PriorsOf(model), mcmc.warm_done + mcmc.samp_done)
    /\ UNCHANGED <<pc, fault>>
    /\ RunFrame

\* mcmc_run.run returns.
McmcReturn ==
    /\ Running /\ pc = "run"
    /\ mcmc.warm_done = mcmc.warmup_steps
    /\ mcmc.samp_done = mcmc.num_samples
    /\ mcmc' = [mcmc EXCEPT !.returned = TRUE]
    /\ pc' = "load"
    /\ UNCHANGED <<fault, heap>>
    /\ RunFrame

\* mcmc_run.run raises (the sampler fails numerically): nothing handles it.
McmcFault ==
    /\ Running /\ pc = "run"
    /\ ~mcmc.returned
    /\ fault' = "sampler"
    /\ UNCHANGED <<pc, mcmc, heap>>
    /\ RunFrame

\* LoadFromSamples not waiting for mcmc_run.run to return.
LoadFromSamplesEarly ==
    /\ Running /\ pc \in {"run", "load"}
    /\ heap' = LoadSamples(heap, PriorsOf(model), mcmc.samples)
    /\ pc' = "eval"
    /\ UNCHANGED <<CI, seed, relax_call, last_call, trained_on,
                   smoke_test, num_samples, warmup_steps,
                   train_n, test_n, priors, model, mode, strict, mcmc,
                   expanded_lead, output, plotted, state_dict, fault>>

\* model.pyro_load_from_samples(mcmc_run.get_samples())
LoadFromSamples ==
    /\ Running /\ pc = "load"
    /\ heap' = LoadSamples(heap, PriorsOf(model), mcmc.samples)
    /\ pc' = "eval"
    /\ UNCHANGED <<CI, seed, relax_call, last_call, trained_on,
                   smoke_test, num_samples, warmup_steps,
                   train_n, test_n, priors, model, mode, strict, mcmc,
                   expanded_lead, output, plotted, state_dict, fault>>

\* Eval with the call to model.eval() left out.
EvalOmitted ==
    /\ Running /\ pc = "eval"
    /\ pc' = "test"
    /\ UNCHANGED <<CI, seed, relax_call, last_call, trained_on, smoke_test,
                   num_samples, warmup_steps, train_n, test_n, heap, priors,
                   model, mode, strict, mcmc, expanded_lead, output, plotted,
                   state_dict, fault>>

\* model.eval()
Eval ==
    /\ Running /\ pc = "eval"
    /\ mode' = [mode EXCEPT ![model] = "eval"]
    /\ pc' = "test"
    /\ UNCHANGED <<CI, seed, relax_call, last_call, trained_on,
                   smoke_test, num_samples, warmup_steps,
                   train_n, test_n, heap, priors, model, strict, mcmc,
                   expanded_lead, output, plotted, state_dict, fault>>

\* MakeTestData without the repeat over the samples.
MakeTestDataNoRepeat ==
    /\ Running /\ pc = "test"
    /\ test_n' = 101
    /\ expanded_lead' = 1
    /\ pc' = "forward"
    /\ UNCHANGED <<CI, seed, relax_call, last_call, trained_on, smoke_test,
                   num_samples, warmup_steps, train_n, heap, priors, model, mode,
                   strict, mcmc, output, plotted, state_dict, fault>>

\* MakeTestData binding the test inputs to train_x.
MakeTestDataOverTrain ==
    /\ Running /\ pc = "test"
    /\ train_n' = 101
    /\ test_n' = 101
    /\ expanded_lead' = num_samples
    /\ pc' = "forward"
    /\ UNCHANGED <<CI, seed, relax_call, last_call, trained_on, smoke_test,
                   num_samples, warmup_steps, heap, priors, model, mode, strict,
                   mcmc, output, plotted, state_dict, fault>>

\* test_x = torch.linspace(0, 1, 101).unsqueeze(-1)
\* expanded_test_x = test_x.unsqueeze(0).repeat(num_samples, 1, 1)
MakeTestData ==
    /\ Running /\ pc = "test"
    /\ test_n' = 101
    /\ expanded_lead' = num_samples
    /\ pc' = "forward"
    /\ UNCHANGED <<CI, seed, relax_call, last_call, trained_on,
                   smoke_test, num_samples, warmup_steps,
                   train_n, heap, priors, model, mode, strict, mcmc, output,
                   plotted, state_dict, fault>>

\* output = model(expanded_test_x): one predictive mean per batch member,
\* each over all test points, from that member's hyperparameters.
Forward ==
    /\ Running /\ pc = "forward"
    /\ IF BatchCompatible(model, expanded_lead)
       THEN /\ output' = [lead |-> expanded_lead, points |-> test_n,
                          mean |-> [i \in 1..expanded_lead |-> HyperSlice(model, i)]]
            /\ pc' = "plot"
            /\ UNCHANGED fault
       ELSE /\ fault' = "batch_shape"
            /\ UNCHANGED <<pc, output>>
    /\ UNCHANGED <<CI, seed, relax_call, last_call, trained_on,
                   smoke_test, num_samples, warmup_steps,
                   train_n, test_n, heap, priors, model, mode, strict, mcmc,
                   expanded_lead, plotted, state_dict>>

Min(a, b) == IF a < b THEN a ELSE b

\* The largest number of mean functions plotted.
PlotLimit == 25

\* PlotCount over every sample.
PlotCountAll == num_samples

\* PlotCount without the min.
PlotCountFixed == PlotLimit

\* range(min(num_samples, 25))
PlotCount == Min(num_samples, PlotLimit)

\* for i in range(...): ax.plot(test_x, output.mean[i], ...)
PlotMean ==
    /\ Running /\ pc = "plot"
    /\ Len(plotted) < PlotCount
    /\ LET i == Len(plotted)
       IN  IF i < output.lead
           THEN /\ plotted' = Append(plotted, [i |-> i, curve |-> output.mean[i + 1]])
                /\ UNCHANGED fault
           ELSE /\ fault' = "index"
                /\ UNCHANGED plotted
    /\ UNCHANGED <<pc, CI, seed, relax_call, last_call, trained_on,
                   smoke_test, num_samples,
                   warmup_steps, train_n, test_n, heap, priors, model, mode,
                   strict, mcmc, expanded_lead, output, state_dict>>

\* The plot loop ends.
PlotDone ==
    /\ Running /\ pc = "plot"
    /\ Len(plotted) = PlotCount
    /\ pc' = "snapshot"
    /\ UNCHANGED <<CI, seed, relax_call, last_call, trained_on,
                   smoke_test, num_samples, warmup_steps,
                   train_n, test_n, heap, priors, model, mode, strict, mcmc,
                   expanded_lead, output, plotted, state_dict, fault>>

\* state_dict = model.state_dict()
Snapshot ==
    /\ Running /\ pc = "snapshot"
    /\ state_dict' = StateDictOf(model)
    /\ pc' = "rebuild"
    /\ UNCHANGED <<CI, seed, relax_call, last_call, trained_on,
                   smoke_test, num_samples, warmup_steps,
                   train_n, test_n, heap, priors, model, mode, strict, mcmc,
                   expanded_lead, output, plotted, fault>>

\* Rebuild with a newly constructed likelihood.
RebuildFreshLikelihood ==
    /\ Running /\ pc = "rebuild"
    /\ heap' = [heap EXCEPT !["model2"] = FreshModule(ModelHypers),
                            !["likelihood"] = FreshModule(LikelihoodHypers)]
    /\ mode' = [mode EXCEPT !["model2"] = "train"]
    /\ strict' = [strict EXCEPT !["model2"] = TRUE]
    /\ trained_on' = [trained_on EXCEPT !["model2"] = train_n]
    /\ model' = "model2"
    /\ pc' = "relax"
    /\ UNCHANGED <<CI, seed, relax_call, last_call, smoke_test, num_samples,
                   warmup_steps, train_n, test_n, priors, mcmc, expanded_lead,
                   output, plotted, state_dict, fault>>

\* Rebuild re-initialising the existing model object in place.
RebuildInPlace ==
    /\ Running /\ pc = "rebuild"
    /\ NewModel("model1")
    /\ pc' = "relax"
    /\ UNCHANGED <<CI, seed, relax_call, last_call, smoke_test, num_samples, warmup_steps,
                   train_n, test_n, priors, mcmc, expanded_lead, output,
                   plotted, state_dict, fault>>

\* model = ExactGPModel(train_x, train_y, likelihood)
Rebuild ==
    /\ Running /\ pc = "rebuild"
    /\ NewModel("model2")
    /\ pc' = "relax"
    /\ UNCHANGED <<CI, seed, relax_call, last_call, smoke_test, num_samples, warmup_steps,
                   train_n, test_n, priors, mcmc, expanded_lead, output,
                   plotted, state_dict, fault>>

\* RelaxArgument with the flag left on.
RelaxArgumentStrict == TRUE

\* The argument of model.load_strict_shapes(...).
RelaxArgument == FALSE

\* model.load_strict_shapes(False)
RelaxShapes ==
    /\ Running /\ pc = "relax"
    /\ relax_call
    /\ strict' = [strict EXCEPT ![model] = RelaxArgument]
    /\ pc' = "reload"
    /\ UNCHANGED <<CI, seed, relax_call, last_call, trained_on,
                   smoke_test, num_samples, warmup_steps,
                   train_n, test_n, heap, priors, model, mode, mcmc,
                   expanded_lead, output, plotted, state_dict, fault>>

\* The script "without the load_strict_shapes call".
OmitRelaxShapes ==
    /\ Running /\ pc = "relax"
    /\ ~relax_call
    /\ pc' = "reload"
    /\ UNCHANGED <<CI, seed, relax_call, last_call, trained_on,
                   smoke_test, num_samples, warmup_steps,
                   train_n, test_n, heap, priors, model, mode, strict, mcmc,
                   expanded_lead, output, plotted, state_dict, fault>>

\* Reload reporting the shape mismatch and carrying on to the end.
ReloadSwallow ==
    /\ Running /\ pc = "reload"
    /\ heap' = LoadStateDict(heap, model, state_dict, strict[model])
    /\ fault' = IF strict[model] /\ ShapeMismatches(model, state_dict) # {}
                THEN "shape_mismatch" ELSE fault
    /\ pc' = "done"
    /\ UNCHANGED <<CI, seed, relax_call, last_call, trained_on, smoke_test,
                   num_samples, warmup_steps, train_n, test_n, priors, model,
                   mode, strict, mcmc, expanded_lead, output, plotted,
                   state_dict>>

\* model.load_state_dict(state_dict)
Reload ==
    /\ Running /\ pc = "reload"
    /\ heap' = LoadStateDict(heap, model, state_dict, strict[model])
    /\ IF strict[model] /\ ShapeMismatches(model, state_dict) # {}
       THEN fault' = "shape_mismatch" /\ UNCHANGED pc
       ELSE pc' = "done" /\ UNCHANGED fault
    /\ UNCHANGED <<CI, seed, relax_call, last_call, trained_on,
                   smoke_test, num_samples, warmup_steps,
                   train_n, test_n, priors, model, mode, strict, mcmc,
                   expanded_lead, output, plotted, state_dict>>

Next ==
    \/ GenerateData
    \/ Configure
    \/ MakeLikelihood
    \/ ConstructModel
    \/ RegisterPrior
    \/ MakeMcmc
    \/ McmcWarmup
    \/ McmcSample
    \/ McmcReturn
    \/ McmcFault
    \/ LoadFromSamples
    \/ Eval
    \/ MakeTestData
    \/ Forward
    \/ PlotMean
    \/ PlotDone
    \/ Snapshot
    \/ Rebuild
    \/ RelaxShapes
    \/ OmitRelaxShapes
    \/ Reload

Spec == Init /\ [][Next]_vars

\* The script's statements are executed one after the other without pause;
\* an iteration of the sampler that does not raise completes.
LiveSpec == Spec /\ WF_vars(Next)

\* ------------------------------------------------------------------ claims

\* Statements after pyro_load_from_samples.
AfterLoad == pc \in {"eval", "test", "forward", "plot", "snapshot", "rebuild",
                     "relax", "reload", "done"}

\* Statements up to and including pyro_load_from_samples.
UpToLoad == pc \in {"data", "config", "likelihood", "construct", "prior",
                    "mcmc", "run", "load"}

\* The sample site of each hyperparameter.
SiteOf == [constant |-> "mean_prior", lengthscale |-> "lengthscale_prior",
           period_length |-> "period_length_prior",
           outputscale |-> "outputscale_prior", noise |-> "noise_prior"]

Constructed(m) == DOMAIN heap[m] # {}

\* C1: the reload of the saved batched state into the reconstructed model
\* succeeds (the script reaches its end with the model holding the saved
\* state) only with shape strictness relaxed on the new model, and ends in a
\* shape-mismatch error only with strict shape checking left on.
C1_ReloadIffRelaxed ==
    /\ pc = "done" =>
          /\ relax_call /\ ~strict[model] /\ fault = "none"
          /\ StateDictOf(model) = state_dict
    /\ fault = "shape_mismatch" =>
          /\ ~relax_call /\ strict[model] /\ pc = "reload"
    /\ (pc = "reload" /\ fault = "none") => (strict[model] <=> ~relax_call)

C1_Witness ==
    /\ pc = "done" /\ model = "model2" /\ ~strict[model]
    /\ LeadingDim(StorageOf(model, "lengthscale")) = num_samples

\* C2: after pyro_load_from_samples every hyperparameter with a registered
\* prior (all five) has leading dimension num_samples: 100 normally, 2 under
\* the CI marker.
C2_LeadingDimIsNumSamples ==
    AfterLoad =>
        \A h \in Hypers :
            /\ \E p \in priors : p.param = h
            /\ LeadingDim(StorageOf("model1", h)) = num_samples
            /\ LeadingDim(StorageOf("model1", h)) = IF CI THEN 2 ELSE 100

C2_Witness ==
    /\ pc = "eval" /\ ~CI
    /\ \A h \in Hypers : LeadingDim(StorageOf("model1", h)) = 100

\* C3: when the sampler run has completed the sample set has one key per
\* registered prior, five in all, each with exactly num_samples values, and
\* these are the draws made after the warmup iterations.
C3_SampleSetShape ==
    mcmc.returned =>
        /\ DOMAIN mcmc.samples = {p.name : p \in priors}
        /\ Cardinality(DOMAIN mcmc.samples) = 5
        /\ mcmc.warm_done = warmup_steps
        /\ \A p \in priors :
              /\ Len(mcmc.samples[p.name]) = num_samples
              /\ \A i \in 1..num_samples :
                    mcmc.samples[p.name][i] = Draw(p, warmup_steps + i - 1)

C3_Witness ==
    /\ pc = "load" /\ mcmc.returned /\ num_samples = 100
    /\ Len(mcmc.samples["noise_prior"]) = 100

\* C4: after loading, batch member i holds, for each of the five
\* hyperparameters, the i-th value drawn at that hyperparameter's sample site.
C4_SliceIsDraw ==
    AfterLoad =>
        \A h \in Hypers : \A i \in 1..num_samples :
            /\ StorageOf("model1", h).batched
            /\ StorageOf("model1", h).vals[i].def
            /\ HyperSlice("model1", i)[h] = mcmc.samples[SiteOf[h]][i]

C4_Witness ==
    /\ pc = "forward" /\ num_samples = 100
    /\ HyperSlice("model1", 1)["noise"] # HyperSlice("model1", 2)["noise"]
    /\ HyperSlice("model1", 100)["noise"] = mcmc.samples["noise_prior"][100]

\* The prior handed to register_prior by the call made last, if any.
Called == IF last_call = NoCall THEN {} ELSE {last_call}

\* C5 as stated: the support of every registered prior contains the
\* constrained domain of its hyperparameter.
C5_SupportContainsDomain ==
    \A p \in priors : Domain(p.param) \subseteq Support(p)

\* C5, amended: the support of every registered prior (each of the five
\* uniform intervals) is contained in the constrained domain of its
\* hyperparameter.
C5_SupportWithinDomain ==
    \A p \in priors \cup Called :
        /\ Support(p) # {}
        /\ Support(p) \subseteq Domain(p.param)

C5_Witness ==
    /\ Cardinality(priors) = 5
    /\ \E p \in priors : p.param = "constant" /\ Support(p) # Domain("constant")

\* C6: the priors on the transformed hyperparameters (lengthscale, period
\* length, outputscale, noise under Positive) have support over positive
\* values only, so every value the sampler draws at their sites is a value of
\* the constrained parameter: its inverse transform is defined.
C6_PositiveSupport ==
    /\ \A p \in priors \cup Called :
          Constraint(p.param) = "positive" => \A v \in Support(p) : v > 0
    /\ \A p \in priors : p.name \in DOMAIN mcmc.samples =>
          \A i \in 1..Len(mcmc.samples[p.name]) :
              /\ mcmc.samples[p.name][i] \in Support(p)
              /\ InvTransform(p.param, mcmc.samples[p.name][i]).def

C6_Witness ==
    /\ mcmc.returned /\ num_samples = 100
    /\ \E p \in priors :
          /\ Constraint(p.param) = "positive"
          /\ Len(mcmc.samples[p.name]) = 100
          /\ \E i \in 1..100 : mcmc.samples[p.name][i] = p.lo

\* C7: when the sampler is built and from then on, exactly five priors are
\* registered, all uniform, under five distinct names, and every
\* hyperparameter of the model and its likelihood has exactly one of them.
C7_OnePriorEach ==
    pc \notin {"data", "config", "likelihood", "construct", "prior"} =>
        /\ Cardinality(priors) = 5
        /\ Cardinality({p.name : p \in priors}) = 5
        /\ \A p \in priors : p.dist = "Uniform" /\ p.param \in DOMAIN heap[p.obj]
        /\ \A o \in {"model1", "likelihood"} : \A h \in DOMAIN heap[o] :
              Cardinality({p \in priors : p.obj = o /\ p.param = h}) = 1

C7_Witness ==
    /\ pc = "mcmc" /\ ~mcmc.built /\ Cardinality(priors) = 5
    /\ DOMAIN heap["model1"] \cup DOMAIN heap["likelihood"] = Hypers

\* The sampler has run its iterations in full: the warmup, then the sampling.
RunComplete ==
    /\ mcmc.warm_done = warmup_steps
    /\ mcmc.samp_done = num_samples
    /\ mcmc.warm_done + mcmc.samp_done = IF CI THEN 4 ELSE 300

\* C8: mcmc_run.run returns only after exactly warmup_steps warmup
\* iterations followed by num_samples sampling iterations (300 in all in the
\* normal configuration, 4 under the CI marker); no sampling iteration
\* precedes the end of the warmup; no later statement runs before it
\* returns; and a run that does not raise returns.
C8_RunBlocksAndTerminates ==
    /\ [](mcmc.returned => RunComplete)
    /\ [](AfterLoad \/ pc = "load" => mcmc.returned)
    /\ [][mcmc'.samp_done > mcmc.samp_done => mcmc.warm_done = warmup_steps]_vars
    /\ (pc = "run" ~> (mcmc.returned \/ fault # "none"))

C8_Witness ==
    /\ pc = "load" /\ mcmc.returned /\ fault = "none"
    /\ mcmc.warm_done = 200 /\ mcmc.samp_done = 100

\* C9: once bound, (num_samples, warmup_steps) is (2, 2) with the CI marker
\* and (100, 200) without it, smoke_test is the marker, the sampler is built
\* with these counts and with the progress bar disabled exactly under the
\* marker; the data sizes and the registered priors are the same either way.
C9_CountsFollowMarker ==
    /\ pc \notin {"data", "config"} =>
          /\ smoke_test = CI
          /\ <<num_samples, warmup_steps>> = IF CI THEN <<2, 2>> ELSE <<100, 200>>
    /\ mcmc.built =>
          /\ mcmc.disable_progbar = CI
          /\ <<mcmc.num_samples, mcmc.warmup_steps>> = <<num_samples, warmup_steps>>
    /\ train_n \in {0, 6} /\ test_n \in {0, 101}
    /\ \A p \in priors : \E k \in 1..5 : p = PriorCalls[k]

C9_Witness ==
    /\ pc = "run" /\ CI /\ mcmc.built /\ mcmc.disable_progbar
    /\ num_samples = 2 /\ warmup_steps = 2

\* Every hyperparameter of the first model object carries the sample dimension.
Batched1 == Constructed("model1") /\ \A h \in Hypers : StorageOf("model1", h).batched

\* No hyperparameter of the first model object carries a sample dimension.
Single1 == \A h \in Hypers : ~StorageOf("model1", h).batched

\* C10: the model is single-instance in every state before
\* pyro_load_from_samples has acted, it becomes a batch at that statement and
\* at no other, and once batched no later statement returns that model
\* object to a single-instance representation.
C10_BatchPersists ==
    /\ [](UpToLoad /\ Constructed("model1") => Single1)
    /\ []((AfterLoad /\ model = "model1") => Batched1)
    /\ [][(~Batched1 /\ Batched1') => pc = "load"]_vars
    /\ [][Batched1 => Batched1']_vars

C10_Witness ==
    /\ pc = "done" /\ model = "model2" /\ Batched1
    /\ LeadingDim(StorageOf("model1", "constant")) = num_samples

\* The statements of the script, in the order the cells list them.
Order == <<"data", "config", "likelihood", "construct", "prior", "mcmc", "run",
           "load", "eval", "test", "forward", "plot", "snapshot", "rebuild",
           "relax", "reload", "done">>

\* Position of a statement in the script.
Rank(p) == CHOOSE i \in 1..Len(Order) : Order[i] = p

\* C11: the sampler is run at most once (the run statement is entered once,
\* from the construction of the MCMC object, and after it has returned the
\* sampler's state never changes), pyro_load_from_samples is executed at most
\* once (the script never comes back to it and the first model's parameters
\* change shape at no other statement), and never before the run has returned.
C11_ProducedOnceConsumedOnce ==
    /\ [][Rank(pc') >= Rank(pc)]_vars
    /\ [][(pc' = "run" /\ pc # "run") => (pc = "mcmc" /\ ~mcmc.built)]_vars
    /\ [][mcmc.returned => mcmc' = mcmc]_vars
    /\ [][(pc' = "eval" /\ pc # "eval") => (pc = "load" /\ mcmc.returned)]_vars
    /\ [][(Constructed("model1") /\ \E h \in Hypers :
                LeadingDim(StorageOf("model1", h))' # LeadingDim(StorageOf("model1", h)))
            => (pc = "load" /\ pc' = "eval" /\ mcmc.returned)]_vars

C11_Witness ==
    /\ pc = "done" /\ mcmc.returned /\ Batched1
    /\ mcmc.samp_done = num_samples
    /\ StorageOf("model1", "lengthscale").vals[1].arg = mcmc.samples["lengthscale_prior"][1]

\* The priors the register_prior statement c is tried with: the one the
\* script passes, and the uniform priors on [lo, lo + 1] in its place.
Candidates(c) ==
    {c} \cup {PriorCall(c.name, lo, lo + 1, c.obj, c.param) :
                 lo \in (0 - MaxEnd)..(MaxEnd - 1)}

\* The next register_prior statement, called with the prior the script
\* passes or with another uniform prior in its place.
RegisterAny ==
    \E p \in Candidates(PriorCalls[IF Cardinality(priors) < Len(PriorCalls)
                                    THEN Cardinality(priors) + 1 ELSE 1]) :
        /\ Running /\ pc = "prior"
        /\ Cardinality(priors) < Len(PriorCalls)
        /\ TryRegister(p)
        /\ pc' = IF Cardinality(priors') = Len(PriorCalls) THEN "mcmc" ELSE "prior"
        /\ UNCHANGED <<CI, seed, relax_call, trained_on, smoke_test,
                       num_samples, warmup_steps, train_n, test_n, heap, model,
                       mode, strict, mcmc, expanded_lead, output, plotted,
                       state_dict>>

RegisterNext ==
    \/ GenerateData
    \/ Configure
    \/ MakeLikelihood
    \/ ConstructModel
    \/ RegisterAny
    \/ MakeMcmc

\* The script up to the construction of the sampler, each register_prior
\* statement called with the script's prior or with another uniform prior.
RegisterSpec == Init /\ [][RegisterNext]_vars

\* C12: a register_prior call whose prior has support outside the constrained
\* domain of its parameter ends in an error at that call, the prior is not
\* attached, and the sampler is never built with such a prior in place.
C12_IncompatiblePriorRejected ==
    /\ (last_call # NoCall /\ \E v \in Support(last_call) : v \notin Domain(last_call.param))
          => /\ fault = "prior_support"
             /\ last_call \notin priors
             /\ pc = "prior" /\ ~mcmc.built
    /\ \A p \in priors : \A v \in Support(p) : v \in Domain(p.param)

C12_Witness ==
    /\ fault = "prior_support" /\ priors # {}
    /\ last_call.param = "noise" /\ last_call.lo = 0 /\ last_call.hi > 0
    /\ last_call \notin priors

\* C13: nothing handles, retries or recovers from a fault: the statement that
\* faults does not complete (the script stays at it), and from a faulted
\* state no statement is executed, neither the failing one again nor a later
\* one, so the script never reaches its end.
C13_FaultStopsScript ==
    /\ [][fault = "none"]_vars
    /\ [][fault' # "none" => pc' = pc]_vars
    /\ [](fault # "none" => pc # "done")
    /\ [](fault = "sampler" => (pc = "run" /\ ~mcmc.returned /\ Single1))
    /\ [](fault = "shape_mismatch" => (pc = "reload" /\ model = "model2"))

C13_Witness ==
    /\ fault = "sampler" /\ pc = "run"
    /\ mcmc.warm_done = warmup_steps /\ mcmc.samp_done > 0
    /\ mcmc.samp_done < num_samples

\* C14: train_x / train_y have 6 points and test_x has 101; once bound they
\* never change whatever statement runs; and the reconstructed model is built
\* with the same training data as the first.
C14_DataImmutable ==
    /\ [](train_n \in {0, 6} /\ test_n \in {0, 101})
    /\ [](Rank(pc) > Rank("data") => train_n = 6)
    /\ [](Rank(pc) > Rank("test") => test_n = 101)
    /\ [][train_n # 0 => train_n' = train_n]_vars
    /\ [][test_n # 0 => test_n' = test_n]_vars
    /\ [](\A o \in ModelObjects : Constructed(o) => trained_on[o] = 6)
    /\ [](Constructed("model2") => trained_on["model2"] = trained_on["model1"])

C14_Witness ==
    /\ pc = "done" /\ train_n = 6 /\ test_n = 101
    /\ trained_on["model1"] = 6 /\ trained_on["model2"] = 6

\* C15: the test input is repeated to leading dimension num_samples, which is
\* the leading dimension of every hyperparameter, and the output of the
\* forward pass holds exactly num_samples predictive means, each over the 101
\* test points, mean i being that of the i-th hyperparameter sample.
C15_PredictionPerSample ==
    /\ fault # "batch_shape"
    /\ Rank(pc) > Rank("test") =>
          /\ expanded_lead = num_samples
          /\ \A h \in Hypers : LeadingDim(StorageOf("model1", h)) = expanded_lead
    /\ Rank(pc) > Rank("forward") =>
          /\ output.lead = num_samples
          /\ DOMAIN output.mean = 1..num_samples
          /\ output.points = 101
          /\ \A i \in 1..num_samples : \A h \in Hypers :
                output.mean[i][h] = mcmc.samples[SiteOf[h]][i]

C15_Witness ==
    /\ pc = "plot" /\ output.lead = 100 /\ output.points = 101
    /\ output.mean[100]["outputscale"] = mcmc.samples["outputscale_prior"][100]

\* C16 as stated: in every configuration exactly 25 curves are drawn, those
\* of batch indices 0 through 24 in order.
C16_TwentyFiveCurves ==
    Rank(pc) > Rank("plot") =>
        /\ Len(plotted) = 25
        /\ \A k \in 1..Len(plotted) : plotted[k].i = k - 1

\* C16, amended: the curves drawn are those of the first min(num_samples, 25)
\* batch indices in order: 25 curves (indices 0 through 24) in the normal
\* configuration, 2 (indices 0 and 1) under the CI marker.
C16_FirstCurves ==
    Rank(pc) > Rank("plot") =>
        /\ Len(plotted) = IF CI THEN 2 ELSE 25
        /\ \A k \in 1..Len(plotted) :
              /\ plotted[k].i = k - 1
              /\ plotted[k].curve = output.mean[k]

C16_Witness ==
    /\ pc = "snapshot" /\ ~CI /\ Len(plotted) = 25
    /\ plotted[25].i = 24

\* C18: every index i at which the plot loop reads output.mean[i] satisfies
\* 0 <= i < num_samples and lies within the batch dimension of the output,
\* in both configurations; the loop runs min(num_samples, 25) times and
\* never fails on an index.
C18_PlotIndexInRange ==
    /\ fault # "index"
    /\ Len(plotted) <= num_samples
    /\ \A k \in 1..Len(plotted) :
          /\ 0 <= plotted[k].i /\ plotted[k].i < num_samples
          /\ plotted[k].i < output.lead
    /\ Rank(pc) > Rank("plot") =>
          Len(plotted) = IF num_samples < 25 THEN num_samples ELSE 25

C18_Witness ==
    /\ pc = "snapshot" /\ CI /\ num_samples = 2
    /\ Len(plotted) = 2 /\ plotted[2].i = 1

\* C17: the statements are executed strictly in the order of the script, one
\* at a time: each step stays at its statement or moves to the next one, the
\* effect of a statement is absent until it has run and present afterwards;
\* in particular the five priors are registered before the sampler is built,
\* the model is in eval mode before the forward pass, the state snapshot is
\* taken before the model is reconstructed, and the shape check is relaxed
\* before the reload.
C17_LinearOrder ==
    /\ [][pc' = pc \/ Rank(pc') = Rank(pc) + 1]_vars
    /\ [](train_n # 0 <=> Rank(pc) > Rank("data"))
    /\ [](num_samples # 0 <=> Rank(pc) > Rank("config"))
    /\ [](Constructed("likelihood") <=> Rank(pc) > Rank("likelihood"))
    /\ [](Constructed("model1") <=> Rank(pc) > Rank("construct"))
    /\ [](Cardinality(priors) = 5 <=> Rank(pc) > Rank("prior"))
    /\ [](mcmc.built <=> Rank(pc) > Rank("mcmc"))
    /\ [](mcmc.returned <=> Rank(pc) > Rank("run"))
    /\ [](Batched1 <=> Rank(pc) > Rank("load"))
    /\ [](mode["model1"] = "eval" <=> Rank(pc) > Rank("eval"))
    /\ [](test_n # 0 <=> Rank(pc) > Rank("test"))
    /\ [](output.lead # 0 <=> Rank(pc) > Rank("forward"))
    /\ [](Rank(pc) < Rank("plot") => Len(plotted) = 0)
    /\ [](Rank(pc) > Rank("plot") => Len(plotted) > 0)
    /\ [](DOMAIN state_dict = Hypers <=> Rank(pc) > Rank("snapshot"))
    /\ [](Constructed("model2") <=> Rank(pc) > Rank("rebuild"))
    /\ [](Rank(pc) <= Rank("relax") => \A o \in ModelObjects : strict[o])
    /\ []((relax_call /\ Rank(pc) > Rank("relax")) => ~strict["model2"])
    /\ [](pc = "done" <=>
             (Constructed("model2") /\ \A h \in ModelHypers : heap["model2"][h].batched))

C17_Witness ==
    /\ pc = "done" /\ relax_call /\ ~strict["model2"]
    /\ mode["model1"] = "eval" /\ DOMAIN state_dict = Hypers
    /\ Cardinality(priors) = 5 /\ Len(plotted) > 0

\* C19: when load_state_dict is called the reconstructed model shares the
\* likelihood the samples were loaded into: its noise has leading dimension
\* num_samples and keeps its prior, while its new mean and kernel
\* hyperparameters are single-instance and have no priors; after the reload
\* with relaxed shapes every hyperparameter of the reconstructed model equals
\* the saved state's entry, with leading dimension num_samples.
C19_ReloadIntoSharedLikelihood ==
    /\ (pc = "reload" /\ fault = "none") =>
          /\ model = "model2"
          /\ LeadingDim(StorageOf("model2", "noise")) = num_samples
          /\ StorageOf("model2", "noise") = state_dict["noise"]
          /\ {p.name : p \in PriorsOf("model2")} = {"noise_prior"}
          /\ \A p \in priors : p.obj # "model2"
          /\ \A h \in ModelHypers :
                /\ ~StorageOf("model2", h).batched
                /\ LeadingDim(StorageOf("model2", h)) = 0
    /\ pc = "done" =>
          \A h \in Hypers :
              /\ StorageOf("model2", h) = state_dict[h]
              /\ LeadingDim(StorageOf("model2", h)) = num_samples

C19_Witness ==
    /\ pc = "done" /\ model = "model2" /\ relax_call
    /\ \A h \in Hypers : LeadingDim(StorageOf("model2", h)) = num_samples
    /\ StorageOf("model2", "period_length") = state_dict["period_length"]

====
